---- MODULE Spec2Model ----
(***************************************************************************)
(* arxiv-cli: the query builder of main (src/src/main.rs), the persistence *)
(* loop download_arxiv_papers and the filename sanitizer                   *)
(* (src/src/download.rs).                                                  *)
(*                                                                         *)
(* Strings are sequences of characters, a character being a one-character  *)
(* TLA+ string.  String::len and String::truncate count UTF-8 bytes, so    *)
(* every character has a Width.                                            *)
(***************************************************************************)
EXTENDS Integers, Sequences, FiniteSets, TLC

VARIABLES
    pc,             \* position of the process: main, the steps of download_arxiv_papers, or an end state
    args,           \* Args parsed by clap (main.rs:11-35)
    search_query,   \* parameters of download_arxiv_papers (download.rs:97-103)
    num_results,
    save_metadata,
    save_pdfs,
    save_summaries,
    arxivs,         \* the fetched records (download.rs:111)
    idx,            \* number of records the for loop has taken so far
    paper,          \* the SerDesArxiv of the current iteration (download.rs:114)
    jsonl_text,     \* the in-memory metadata buffer (download.rs:112)
    body,           \* bytes received by fetch_pdf (download.rs:61)
    meta,           \* the file metadata.jsonl
    pdfs,           \* the directory pdfs/
    texts,          \* the directory texts/
    fs0,            \* the file system as it was when the process started
    inflight,       \* network operations sent and not yet completed
    log,            \* the steps performed so far, in order
    name,           \* argument of a stand-alone call of sanitize_filename
    out             \* its result

vars == <<pc, args, search_query, num_results, save_metadata, save_pdfs,
          save_summaries, arxivs, idx, paper, jsonl_text, body, meta, pdfs,
          texts, fs0, inflight, log, name, out>>

----------------------------------------------------------------------------
(* Bounds *)

MaxLimit == 2       \* largest --limit tried
MaxTail == 3        \* longest free part of a title given to the sanitizer

----------------------------------------------------------------------------
(* Strings *)

MaxFilenameLen == 200

None == <<"None">>

Whitespace == {" ", "\t"}

InvalidChars == <<"<", ">", ":", "\"", "/", "\\", "|", "?", "*">>

InvalidCharSet == {InvalidChars[i] : i \in DOMAIN InvalidChars}

\* UTF-8 width of a character
Width(c) == IF c = "é" THEN 2 ELSE 1

\* the bytes of the first k characters (a UTF-8 character has 1 to 4 bytes)
ByteLenUpTo(s, k) ==
    LET n(w) == Cardinality({i \in 1..k : Width(s[i]) = w})
    IN  n(1) + 2 * n(2) + 3 * n(3) + 4 * n(4)

\* String::len
ByteLen(s) == ByteLenUpTo(s, Len(s))

\* str::replace(ch, "_") for one character ch
ReplaceChar(s, ch) == [i \in DOMAIN s |-> IF s[i] = ch THEN "_" ELSE s[i]]

RECURSIVE ReplaceInvalid(_, _)
ReplaceInvalid(s, k) ==
    IF k = 0 THEN s
    ELSE ReplaceChar(ReplaceInvalid(s, k - 1), InvalidChars[k])

\* str::trim
Trim(s) ==
    LET keep == {i \in DOMAIN s : s[i] \notin Whitespace}
    IN  IF keep = {} THEN <<>>
        ELSE SubSeq(s, CHOOSE i \in keep : \A j \in keep : i <= j,
                       CHOOSE i \in keep : \A j \in keep : j <= i)

\* str::trim_end_matches('.')
TrimEndDots(s) ==
    LET keep == {i \in DOMAIN s : s[i] # "."}
    IN  IF keep = {} THEN <<>>
        ELSE SubSeq(s, 1, CHOOSE i \in keep : \A j \in keep : j <= i)

\* str::is_char_boundary(n)
IsCharBoundary(s, n) == \E k \in 0..Len(s) : ByteLenUpTo(s, k) = n

\* String::truncate(n) where n is a character boundary
Truncate(s, n) == SubSeq(s, 1, CHOOSE k \in 0..Len(s) : ByteLenUpTo(s, k) = n)

\* sanitize_filename: String::truncate panics when the new length is not on
\* a character boundary
sanitize_filename(title) ==
    LET replaced == ReplaceInvalid(title, Len(InvalidChars))
        trimmed  == TrimEndDots(Trim(replaced))
    IN  IF ByteLen(trimmed) > MaxFilenameLen
        THEN IF IsCharBoundary(trimmed, MaxFilenameLen)
             THEN [panicked |-> FALSE, value |-> Truncate(trimmed, MaxFilenameLen)]
             ELSE [panicked |-> TRUE, value |-> <<>>]
        ELSE [panicked |-> FALSE, value |-> trimmed]

\* str::ends_with
EndsWith(s, suffix) ==
    /\ Len(s) >= Len(suffix)
    /\ SubSeq(s, Len(s) - Len(suffix) + 1, Len(s)) = suffix

\* str::replace(pat, rep): the non-overlapping matches, left to right
RECURSIVE ReplaceFrom(_, _, _, _)
ReplaceFrom(s, pat, rep, i) ==
    IF i > Len(s) THEN <<>>
    ELSE IF i + Len(pat) - 1 <= Len(s) /\ SubSeq(s, i, i + Len(pat) - 1) = pat
         THEN rep \o ReplaceFrom(s, pat, rep, i + Len(pat))
         ELSE <<s[i]>> \o ReplaceFrom(s, pat, rep, i + 1)

Replace(s, pat, rep) == ReplaceFrom(s, pat, rep, 1)

----------------------------------------------------------------------------
(* Records and files *)

JSON_FILE == <<"m", "e", "t", "a", "d", "a", "t", "a", ".", "j", "s", "o", "n", "l">>

PDF_DIRECTORY == <<"p", "d", "f", "s", "/">>

TEXT_DIRECTORY == <<"t", "e", "x", "t", "s", "/">>

DotPdf == <<".", "p", "d", "f">>

DotTxt == <<".", "t", "x", "t">>

Https == <<"h", "t", "t", "p", "s">>

Httpss == <<"h", "t", "t", "p", "s", "s">>

\* a record as the API returns it (arxiv::Arxiv)
Arxiv(id, title, summary, scheme) ==
    [id |-> id, updated |-> "u", published |-> "p", title |-> title,
     summary |-> summary, authors |-> <<"A">>, primary_category |-> "cs.CL",
     categories |-> <<"cs.CL">>, pdf_url |-> scheme \o <<":", "p">> \o <<id>>,
     html_url |-> scheme \o <<":", "h">> \o <<id>>, comment |-> None]

\* the records the API can return: titles that sanitize to one name, titles
\* that differ only by the .pdf extension, and URLs with and without the
\* httpss defect
Papers ==
    { Arxiv("1", <<"a", ":">>, "s1", Https),
      Arxiv("2", <<"a", "_", ".">>, "s2", Httpss),
      Arxiv("3", <<"b">>, "s3", Httpss),
      Arxiv("4", <<"b", ".", "p", "d", "f">>, "s1", Https) }

\* the answers of the API to a query for at most n records: no record twice
Results(n) ==
    UNION { { r \in [1..k -> Papers] : \A i, j \in 1..k : i # j => r[i] # r[j] }
            : k \in 0..n }

\* SerDesArxiv::from_arxiv
from_arxiv(arxiv_paper) ==
    [arxiv_paper EXCEPT !.pdf_url = Replace(@, Httpss, Https),
                        !.html_url = Replace(@, Httpss, Https)]

\* serde_json::to_string of a SerDesArxiv: summary has skip_serializing
to_string(p) == [f \in (DOMAIN p) \ {"summary"} |-> p[f]]

\* the pieces of the metadata buffer: a JSON object and the line feed
Json(object) == [kind |-> "json", value |-> object]

LineFeed == [kind |-> "\n"]

\* format!("{}\n", paper_metadata)
Line(paper_metadata) == <<Json(paper_metadata), LineFeed>>

\* the lines of a text, split at the line feeds
RECURSIVE LinesFrom(_, _, _)
LinesFrom(text, i, cur) ==
    IF i > Len(text) THEN (IF cur = <<>> THEN <<>> ELSE <<cur>>)
    ELSE IF text[i] = LineFeed THEN <<cur>> \o LinesFrom(text, i + 1, <<>>)
         ELSE LinesFrom(text, i + 1, Append(cur, text[i]))

Lines(text) == LinesFrom(text, 1, <<>>)

\* the bytes the server sends for a URL
Body(url) == <<"pdf-at", url>>

\* the path fetch_pdf creates for out_path
PdfPath(out_path) == IF EndsWith(out_path, DotPdf) THEN out_path ELSE out_path \o DotPdf

\* the path write_summary writes for out_path
TxtPath(out_path) == IF EndsWith(out_path, DotTxt) THEN out_path ELSE out_path \o DotTxt

\* format!("{}/{}", PDF_DIRECTORY, sanitized_title)
PdfOutPath(sanitized_title) == PDF_DIRECTORY \o <<"/">> \o sanitized_title

\* format!("{}/{}.txt", TEXT_DIRECTORY, sanitized_title)
TxtOutPath(sanitized_title) == TEXT_DIRECTORY \o <<"/">> \o sanitized_title \o DotTxt

NoFile == [exists |-> FALSE, content |-> <<>>]

File(content) == [exists |-> TRUE, content |-> content]

NoDir == [exists |-> FALSE, files |-> <<>>]

Dir(files) == [exists |-> TRUE, files |-> files]

\* a file system left by an earlier run
OldMeta == File(Line(to_string(from_arxiv(Arxiv("0", <<"o">>, "s0", Https)))))

OldPdfs == Dir(PdfPath(PdfOutPath(<<"o">>)) :> Body(<<"o">>))

OldTexts == Dir(TxtPath(TxtOutPath(<<"o">>)) :> "s0")

\* File::create / fs::write of a path in a directory: a new file, or the
\* old one overwritten
WriteFile(dir, path, content) == [dir EXCEPT !.files = (path :> content) @@ @]

Paths(dir) == DOMAIN dir.files

----------------------------------------------------------------------------
(* main *)

is_none(opt) == opt = None

CatColon == <<"c", "a", "t", ":">>

SpaceAndSpace == <<" ", "A", "N", "D", " ">>

\* the match with the category arm taken whenever a category is given
BuildQuery_CategoryFirst(category, query) ==
    IF ~is_none(category) THEN CatColon \o category ELSE query

\* the match of main.rs:48-53
BuildQuery(category, query) ==
    IF ~is_none(category) /\ ~is_none(query) THEN CatColon \o category \o SpaceAndSpace \o query
    ELSE IF ~is_none(category) THEN CatColon \o category
    ELSE query

NoPaper == Arxiv("", <<>>, "", <<>>)

ArgsSet ==
    [category : {None, <<"c", "s">>}, query : {None, <<"r", "a", "g">>},
     limit : 0..MaxLimit, pdf : BOOLEAN, summary : BOOLEAN, no_metadata : BOOLEAN]

sanVars == <<name, out>>

callVars == <<search_query, num_results, save_metadata, save_pdfs, save_summaries>>

loopVars == <<arxivs, idx, paper, jsonl_text, body>>

fsVars == <<meta, pdfs, texts>>

Init ==
    /\ pc = "main"
    /\ args \in ArgsSet
    /\ search_query = <<>>
    /\ num_results = 0
    /\ save_metadata = FALSE
    /\ save_pdfs = FALSE
    /\ save_summaries = FALSE
    /\ arxivs = <<>>
    /\ idx = 0
    /\ paper = NoPaper
    /\ jsonl_text = <<>>
    /\ body = <<>>
    /\ meta \in {NoFile, OldMeta}
    /\ pdfs \in {NoDir, OldPdfs}
    /\ texts \in {NoDir, OldTexts}
    /\ fs0 = [meta |-> meta, pdfs |-> pdfs, texts |-> texts]
    /\ inflight = 0
    /\ log = <<>>
    /\ name = <<>>
    /\ out = [panicked |-> FALSE, value |-> <<>>]

\* main.rs:42-45: neither --category nor --query
MainUsageError ==
    /\ pc = "main"
    /\ is_none(args.category) /\ is_none(args.query)
    /\ pc' = "exit1"
    /\ UNCHANGED <<args, callVars, loopVars, fsVars, fs0, inflight, log, sanVars>>

\* main.rs:48-62: build the query and call download_arxiv_papers
MainCall ==
    /\ pc = "main"
    /\ ~(is_none(args.category) /\ is_none(args.query))
    /\ search_query' = BuildQuery(args.category, args.query)
    /\ num_results' = args.limit
    /\ save_metadata' = ~args.no_metadata
    /\ save_pdfs' = args.pdf
    /\ save_summaries' = args.summary
    /\ pc' = "fetch"
    /\ UNCHANGED <<args, loopVars, fsVars, fs0, inflight, log, sanVars>>

----------------------------------------------------------------------------
(* download_arxiv_papers *)

\* the step a record takes after the summary block
AfterSummaries == "loop"

\* the step a record takes after the PDF block (download.rs:129)
AfterPdfs == IF save_summaries THEN "txt_dir" ELSE AfterSummaries

\* the PDF block entered whatever save_pdfs says
AfterMetadata_Unguarded == "pdf_dir"

\* the step a record takes after the metadata block (download.rs:120)
AfterMetadata == IF save_pdfs THEN "pdf_dir" ELSE AfterPdfs

\* the step a record takes after from_arxiv (download.rs:115)
AfterFromArxiv == IF save_metadata THEN "meta" ELSE AfterMetadata

\* a step of the current record was performed
Did(stage, ok) == log' = Append(log, <<stage, idx, ok>>)

\* the ? operator on an Err: the function returns the error
Abort(stage) ==
    /\ pc' = "error"
    /\ Did(stage, FALSE)

\* download.rs:111: the request of fetch_arxivs is sent
FetchSend ==
    /\ pc = "fetch"
    /\ inflight' = inflight + 1
    /\ pc' = "fetch_wait"
    /\ UNCHANGED <<args, callVars, loopVars, fsVars, fs0, log, sanVars>>

\* download.rs:111-112: the answer arrived
FetchOk ==
    /\ pc = "fetch_wait"
    /\ \E r \in Results(num_results) : arxivs' = r
    /\ jsonl_text' = <<>>
    /\ inflight' = inflight - 1
    /\ pc' = "loop"
    /\ Did("fetch", TRUE)
    /\ UNCHANGED <<args, callVars, idx, paper, body, fsVars, fs0, sanVars>>

\* download.rs:111: transport or parse failure
FetchErr ==
    /\ pc = "fetch_wait"
    /\ inflight' = inflight - 1
    /\ Abort("fetch")
    /\ UNCHANGED <<args, callVars, loopVars, fsVars, fs0, sanVars>>

\* download.rs:113-114: the for loop takes the next record
LoopNext ==
    /\ pc = "loop"
    /\ idx < Len(arxivs)
    /\ idx' = idx + 1
    /\ paper' = from_arxiv(arxivs[idx + 1])
    /\ pc' = AfterFromArxiv
    /\ UNCHANGED <<args, callVars, arxivs, jsonl_text, body, fsVars, fs0, inflight, log, sanVars>>

\* download.rs:139, 142: the loop is over
LoopEnd ==
    /\ pc = "loop"
    /\ idx = Len(arxivs)
    /\ pc' = IF jsonl_text # <<>> THEN "flush" ELSE "done"
    /\ UNCHANGED <<args, callVars, loopVars, fsVars, fs0, inflight, log, sanVars>>

\* the metadata line written to the file as soon as it is built
MetaAppend_WriteThrough ==
    /\ pc = "meta"
    /\ jsonl_text' = jsonl_text \o Line(to_string(paper))
    /\ meta' = File(jsonl_text')
    /\ pc' = AfterMetadata
    /\ Did("meta", TRUE)
    /\ UNCHANGED <<args, callVars, arxivs, idx, paper, body, pdfs, texts, fs0, inflight, sanVars>>

\* download.rs:116-118
MetaAppend ==
    /\ pc = "meta"
    /\ jsonl_text' = jsonl_text \o Line(to_string(paper))
    /\ pc' = AfterMetadata
    /\ Did("meta", TRUE)
    /\ UNCHANGED <<args, callVars, arxivs, idx, paper, body, fsVars, fs0, inflight, sanVars>>

\* download.rs:117: serde_json::to_string(..)?
MetaErr ==
    /\ pc = "meta"
    /\ Abort("meta")
    /\ UNCHANGED <<args, callVars, loopVars, fsVars, fs0, inflight, sanVars>>

\* download.rs:121-124
PdfDir ==
    /\ pc = "pdf_dir"
    /\ pdfs' = IF pdfs.exists THEN pdfs ELSE Dir(<<>>)
    /\ pc' = "pdf_get"
    /\ Did("pdf_dir", TRUE)
    /\ UNCHANGED <<args, callVars, loopVars, meta, texts, fs0, inflight, sanVars>>

\* download.rs:121, 123: fs::exists(..)? or fs::create_dir(..)?
PdfDirErr ==
    /\ pc = "pdf_dir"
    /\ Abort("pdf_dir")
    /\ UNCHANGED <<args, callVars, loopVars, fsVars, fs0, inflight, sanVars>>

\* the GET sent and not awaited
PdfGetSend_NotAwaited ==
    /\ pc = "pdf_get"
    /\ pc' = "pdf_write"
    /\ inflight' = inflight + 1
    /\ UNCHANGED <<args, callVars, loopVars, fsVars, fs0, log, sanVars>>

\* download.rs:125-127, 61: the title is sanitized and the GET is sent
PdfGetSend ==
    /\ pc = "pdf_get"
    /\ IF sanitize_filename(paper.title).panicked
       THEN pc' = "panicked" /\ UNCHANGED inflight
       ELSE pc' = "pdf_wait" /\ inflight' = inflight + 1
    /\ UNCHANGED <<args, callVars, loopVars, fsVars, fs0, log, sanVars>>

\* download.rs:61: the bytes arrived
PdfGetOk ==
    /\ pc = "pdf_wait"
    /\ body' = Body(paper.pdf_url)
    /\ inflight' = inflight - 1
    /\ pc' = "pdf_write"
    /\ Did("pdf_get", TRUE)
    /\ UNCHANGED <<args, callVars, arxivs, idx, paper, jsonl_text, fsVars, fs0, sanVars>>

\* the error of the GET logged and the run continued
PdfGetErr_Swallowed ==
    /\ pc = "pdf_wait"
    /\ inflight' = inflight - 1
    /\ pc' = AfterPdfs
    /\ Did("pdf_get", FALSE)
    /\ UNCHANGED <<args, callVars, loopVars, fsVars, fs0, sanVars>>

\* download.rs:61: reqwest::get(..).await? or bytes().await?
PdfGetErr ==
    /\ pc = "pdf_wait"
    /\ inflight' = inflight - 1
    /\ Abort("pdf_get")
    /\ UNCHANGED <<args, callVars, loopVars, fsVars, fs0, sanVars>>

\* the path of the PDF of the current record (download.rs:125-126, 62-66)
CurPdfPath == PdfPath(PdfOutPath(sanitize_filename(paper.title).value))

\* download.rs:67-69
PdfWrite ==
    /\ pc = "pdf_write"
    /\ pdfs' = WriteFile(pdfs, CurPdfPath, body)
    /\ pc' = AfterPdfs
    /\ Did("pdf_write", TRUE)
    /\ UNCHANGED <<args, callVars, loopVars, meta, texts, fs0, inflight, sanVars>>

\* download.rs:67-68: File::create(..)? fails, or it truncates the file and
\* write_all(..)? fails
PdfWriteErr ==
    /\ pc = "pdf_write"
    /\ \/ pdfs' = pdfs
       \/ pdfs' = WriteFile(pdfs, CurPdfPath, <<>>)
    /\ Abort("pdf_write")
    /\ UNCHANGED <<args, callVars, loopVars, meta, texts, fs0, inflight, sanVars>>

\* download.rs:130-133
TxtDir ==
    /\ pc = "txt_dir"
    /\ texts' = IF texts.exists THEN texts ELSE Dir(<<>>)
    /\ pc' = "txt_write"
    /\ Did("txt_dir", TRUE)
    /\ UNCHANGED <<args, callVars, loopVars, meta, pdfs, fs0, inflight, sanVars>>

\* download.rs:130, 132
TxtDirErr ==
    /\ pc = "txt_dir"
    /\ Abort("txt_dir")
    /\ UNCHANGED <<args, callVars, loopVars, fsVars, fs0, inflight, sanVars>>

\* the path of the summary of the current record (download.rs:134-135, 86-90)
CurTxtPath == TxtPath(TxtOutPath(sanitize_filename(paper.title).value))

\* download.rs:134-136, 85-94
TxtWrite ==
    /\ pc = "txt_write"
    /\ IF sanitize_filename(paper.title).panicked
       THEN pc' = "panicked" /\ UNCHANGED <<texts, log>>
       ELSE /\ texts' = WriteFile(texts, CurTxtPath, paper.summary)
            /\ pc' = AfterSummaries
            /\ Did("txt_write", TRUE)
    /\ UNCHANGED <<args, callVars, loopVars, meta, pdfs, fs0, inflight, sanVars>>

\* download.rs:92: fs::write(..)? cannot open the file, or truncates it and
\* cannot write
TxtWriteErr ==
    /\ pc = "txt_write"
    /\ ~sanitize_filename(paper.title).panicked
    /\ \/ texts' = texts
       \/ texts' = WriteFile(texts, CurTxtPath, "")
    /\ Abort("txt_write")
    /\ UNCHANGED <<args, callVars, loopVars, meta, pdfs, fs0, inflight, sanVars>>

\* the buffer appended to the file instead of replacing it
Flush_Appending ==
    /\ pc = "flush"
    /\ meta' = File(meta.content \o jsonl_text)
    /\ pc' = "done"
    /\ log' = Append(log, <<"flush", idx, TRUE>>)
    /\ UNCHANGED <<args, callVars, loopVars, pdfs, texts, fs0, inflight, sanVars>>

\* download.rs:139-142
Flush ==
    /\ pc = "flush"
    /\ meta' = File(jsonl_text)
    /\ pc' = "done"
    /\ log' = Append(log, <<"flush", idx, TRUE>>)
    /\ UNCHANGED <<args, callVars, loopVars, pdfs, texts, fs0, inflight, sanVars>>

\* download.rs:140: fs::write(..)? cannot open the file, or truncates it and
\* cannot write
FlushErr ==
    /\ pc = "flush"
    /\ \/ meta' = meta
       \/ meta' = File(<<>>)
    /\ pc' = "error"
    /\ log' = Append(log, <<"flush", idx, FALSE>>)
    /\ UNCHANGED <<args, callVars, loopVars, pdfs, texts, fs0, inflight, sanVars>>

Next ==
    \/ MainUsageError
    \/ MainCall
    \/ FetchSend
    \/ FetchOk
    \/ FetchErr
    \/ LoopNext
    \/ LoopEnd
    \/ MetaAppend
    \/ MetaErr
    \/ PdfDir
    \/ PdfDirErr
    \/ PdfGetSend
    \/ PdfGetOk
    \/ PdfGetErr
    \/ PdfWrite
    \/ PdfWriteErr
    \/ TxtDir
    \/ TxtDirErr
    \/ TxtWrite
    \/ TxtWriteErr
    \/ Flush
    \/ FlushErr

Spec == Init /\ [][Next]_vars

----------------------------------------------------------------------------
(* sanitize_filename called on its own *)

Alphabet == {"a", " ", ".", "?", "é"}

Pad(n) == [i \in 1..n |-> "a"]

\* titles: a run of n letters followed by any string of at most MaxTail
\* characters, n chosen so that the results fall on both sides of the limit
PadLens == {0} \cup ((MaxFilenameLen - 2)..MaxFilenameLen)

Tails == UNION { [1..k -> Alphabet] : k \in 0..MaxTail }

Titles == { Pad(n) \o t : n \in PadLens, t \in Tails }

InitSan ==
    /\ pc = "sanitize"
    /\ name \in Titles
    /\ out = [panicked |-> FALSE, value |-> <<>>]
    /\ args = [category |-> None, query |-> None, limit |-> 0, pdf |-> FALSE,
               summary |-> FALSE, no_metadata |-> FALSE]
    /\ search_query = <<>>
    /\ num_results = 0
    /\ save_metadata = FALSE
    /\ save_pdfs = FALSE
    /\ save_summaries = FALSE
    /\ arxivs = <<>>
    /\ idx = 0
    /\ paper = NoPaper
    /\ jsonl_text = <<>>
    /\ body = <<>>
    /\ meta = NoFile
    /\ pdfs = NoDir
    /\ texts = NoDir
    /\ fs0 = [meta |-> meta, pdfs |-> pdfs, texts |-> texts]
    /\ inflight = 0
    /\ log = <<>>

\* download.rs:7-21: the call returns
SanReturn ==
    /\ pc = "sanitize"
    /\ ~sanitize_filename(name).panicked
    /\ out' = sanitize_filename(name)
    /\ pc' = "returned"
    /\ UNCHANGED <<args, callVars, loopVars, fsVars, fs0, inflight, log, name>>

\* download.rs:18: String::truncate panics
SanPanic ==
    /\ pc = "sanitize"
    /\ sanitize_filename(name).panicked
    /\ out' = sanitize_filename(name)
    /\ pc' = "panicked"
    /\ UNCHANGED <<args, callVars, loopVars, fsVars, fs0, inflight, log, name>>

NextSan == SanReturn \/ SanPanic

SpecSan == InitSan /\ [][NextSan]_vars

----------------------------------------------------------------------------
(* Properties *)

Last(s) == s[Len(s)]

FetchedOk == log # <<>> /\ log[1] = <<"fetch", 0, TRUE>>

\* the object the metadata file must hold for a fetched record: every field
\* but the summary, the URLs without the httpss defect
IsMetadataOf(object, a) ==
    /\ DOMAIN object = {"id", "updated", "published", "title", "authors",
                        "primary_category", "categories", "pdf_url", "html_url", "comment"}
    /\ \A f \in {"id", "updated", "published", "title", "authors",
                 "primary_category", "categories", "comment"} : object[f] = a[f]
    /\ object.pdf_url = Replace(a.pdf_url, Httpss, Https)
    /\ object.html_url = Replace(a.html_url, Httpss, Https)

\* C1: after a successful run with save_metadata and N >= 1 fetched records,
\* metadata.jsonl holds exactly N lines, none empty, line i being the JSON
\* object of the i-th fetched record, and nothing of its earlier content.
C1_MetadataFile ==
    (pc = "done" /\ save_metadata /\ Len(arxivs) >= 1) =>
        /\ meta.exists
        /\ Len(Lines(meta.content)) = Len(arxivs)
        /\ Last(meta.content) = LineFeed
        /\ \A i \in 1..Len(arxivs) :
              /\ Len(Lines(meta.content)[i]) = 1
              /\ Lines(meta.content)[i][1].kind = "json"
              /\ IsMetadataOf(Lines(meta.content)[i][1].value, arxivs[i])

C1_Witness ==
    /\ pc = "done" /\ save_metadata /\ Len(arxivs) >= 2
    /\ fs0.meta.exists /\ meta # fs0.meta

\* C2: a side effect happens only when its flag is set: without save_metadata
\* the metadata file stays as it was, without save_pdfs the directory pdfs/
\* stays as it was, without save_summaries the directory texts/ stays as it
\* was; a run that fetched no record leaves all three as they were.
C2_FlagsFrame ==
    (pc \notin {"main", "exit1"}) =>
        /\ ~save_metadata => meta = fs0.meta
        /\ ~save_pdfs => pdfs = fs0.pdfs
        /\ ~save_summaries => texts = fs0.texts
        /\ (FetchedOk /\ arxivs = <<>>) =>
              (meta = fs0.meta /\ pdfs = fs0.pdfs /\ texts = fs0.texts)

C2_Witness ==
    /\ pc = "done" /\ Len(arxivs) >= 1
    /\ save_metadata /\ ~save_pdfs /\ save_summaries
    /\ meta # fs0.meta /\ texts # fs0.texts /\ pdfs = fs0.pdfs

\* C3: after a successful run with save_pdfs that started without pdfs/, the
\* directory holds exactly as many files as records were fetched.
C3_OneFilePerPdf ==
    (pc = "done" /\ save_pdfs /\ ~fs0.pdfs.exists) =>
        Cardinality(Paths(pdfs)) = Len(arxivs)

\* the path of the summary file of a fetched record
TxtPathOf(a) == TxtPath(TxtOutPath(sanitize_filename(a.title).value))

\* the path of the PDF file of a fetched record
PdfPathOf(a) == PdfPath(PdfOutPath(sanitize_filename(a.title).value))

\* C4: after a successful run with save_summaries that started without
\* texts/, the directory holds exactly as many files as records were
\* fetched, and the file named from a record's title holds its summary.
C4_OneFilePerSummary ==
    (pc = "done" /\ save_summaries /\ ~fs0.texts.exists) =>
        /\ Cardinality(Paths(texts)) = Len(arxivs)
        /\ \A i \in 1..Len(arxivs) :
              /\ TxtPathOf(arxivs[i]) \in Paths(texts)
              /\ texts.files[TxtPathOf(arxivs[i])] = arxivs[i].summary

\* a failed step is the last step performed and leaves the run in the error state
FailedLast == \A i \in DOMAIN log : ~log[i][3] => (i = Len(log) /\ pc = "error")

\* C5: a failing step aborts the run: it is the last step performed, the run
\* is in the error state, and nothing happens after the error state is
\* reached (no later step, no later record, no retry).
C5_AbortOnFailure == [][FailedLast' /\ pc # "error"]_vars

C5_Witness ==
    /\ pc = "error" /\ idx >= 1 /\ idx < Len(arxivs)
    /\ save_metadata /\ save_pdfs /\ save_summaries
    /\ Last(log) = <<"pdf_get", idx, FALSE>>

\* C6: the string sanitize_filename returns does not begin with whitespace,
\* does not end with whitespace and does not end with a dot.
C6_Trimmed ==
    (pc = "returned" /\ out.value # <<>>) =>
        /\ out.value[1] \notin Whitespace
        /\ Last(out.value) \notin Whitespace
        /\ Last(out.value) # "."

\* C7: sanitize_filename returns for every title (it does not panic), and
\* the string it returns holds no reserved character and at most 200
\* characters.
C7_TotalAndSafe ==
    (pc \in {"returned", "panicked"}) =>
        /\ pc = "returned"
        /\ ~out.panicked
        /\ \A i \in DOMAIN out.value : out.value[i] \notin InvalidCharSet
        /\ Len(out.value) <= 200

\* C8: with both options the query is cat:<category> AND <query>, with the
\* category alone cat:<category>, with the query alone the query; with
\* neither the process exits with status 1, the API was not called and no
\* file or directory was touched; download_arxiv_papers runs only with one
\* of the three strings.
C8_QueryBuilder ==
    /\ (is_none(args.category) /\ is_none(args.query)) => pc \in {"main", "exit1"}
    /\ pc = "exit1" =>
          /\ is_none(args.category) /\ is_none(args.query)
          /\ log = <<>> /\ inflight = 0
          /\ meta = fs0.meta /\ pdfs = fs0.pdfs /\ texts = fs0.texts
    /\ (pc \notin {"main", "exit1"}) =>
          /\ (~is_none(args.category) /\ ~is_none(args.query)) =>
                search_query = <<"c", "a", "t", ":">> \o args.category
                                  \o <<" ", "A", "N", "D", " ">> \o args.query
          /\ (~is_none(args.category) /\ is_none(args.query)) =>
                search_query = <<"c", "a", "t", ":">> \o args.category
          /\ (is_none(args.category) /\ ~is_none(args.query)) =>
                search_query = args.query

C8_Witness ==
    /\ pc = "fetch_wait"
    /\ ~is_none(args.category) /\ ~is_none(args.query)
    /\ search_query = <<"c", "a", "t", ":", "c", "s", " ", "A", "N", "D", " ", "r", "a", "g">>

\* the place of a step in the run: the fetch, then the records in order and
\* within a record the steps in order, then the write of the metadata file
StageRank(stage) ==
    CASE stage = "fetch" -> 0
      [] stage = "meta" -> 1
      [] stage = "pdf_dir" -> 2
      [] stage = "pdf_get" -> 3
      [] stage = "pdf_write" -> 4
      [] stage = "txt_dir" -> 5
      [] stage = "txt_write" -> 6
      [] stage = "flush" -> 7

Precedes(e, f) ==
    \/ e[1] = "fetch" /\ f[1] # "fetch"
    \/ e[1] # "flush" /\ f[1] = "flush"
    \/ /\ e[1] \notin {"fetch", "flush"} /\ f[1] \notin {"fetch", "flush"}
       /\ \/ e[2] < f[2]
          \/ e[2] = f[2] /\ StageRank(e[1]) < StageRank(f[1])

\* C9: the steps of a run are totally ordered: the fetch completes before
\* any record is taken, the steps of a record come in the order metadata,
\* PDF directory, PDF download, PDF write, text directory, summary write,
\* all steps of a record come before those of the next, at most one network
\* operation is in flight, and the metadata file is written at most once,
\* after the last step of the last record.
C9_TotalOrder ==
    /\ inflight \in {0, 1}
    /\ inflight = 1 <=> pc \in {"fetch_wait", "pdf_wait"}
    /\ idx >= 1 => FetchedOk
    /\ \A i, j \in DOMAIN log : i < j => Precedes(log[i], log[j])
    /\ \A i \in DOMAIN log :
          /\ log[i][1] = "fetch" <=> log[i][2] = 0
          /\ log[i][1] = "flush" => (i = Len(log) /\ log[i][2] = Len(arxivs))
    /\ meta # fs0.meta => (log # <<>> /\ Last(log)[1] = "flush")

C9_Witness ==
    /\ pc = "done" /\ Len(arxivs) >= 2
    /\ save_metadata /\ save_pdfs /\ save_summaries
    /\ Last(log) = <<"flush", Len(arxivs), TRUE>>
    /\ Len(log) = 2 + 6 * Len(arxivs)

\* C10: when a run with save_metadata fails at the fetch or at a step of a
\* record, the metadata file is as it was before the run, and the PDF and
\* summary files written before the failure are on disk.
C10_FailureKeepsMetadata ==
    (pc = "error" /\ save_metadata /\ Last(log)[1] # "flush") =>
        /\ meta = fs0.meta
        /\ \A i \in DOMAIN log :
              /\ (log[i][1] = "pdf_write" /\ log[i][3]) => PdfPathOf(arxivs[log[i][2]]) \in Paths(pdfs)
              /\ (log[i][1] = "txt_write" /\ log[i][3]) => TxtPathOf(arxivs[log[i][2]]) \in Paths(texts)

\* a failed run that left the PDF and the summary of a record that the
\* metadata file does not list
C10_Witness ==
    /\ pc = "error" /\ save_metadata /\ idx = 2
    /\ ~fs0.meta.exists /\ ~meta.exists /\ jsonl_text # <<>>
    /\ ~fs0.pdfs.exists /\ PdfPathOf(arxivs[1]) \in Paths(pdfs)
    /\ ~fs0.texts.exists /\ TxtPathOf(arxivs[1]) \in Paths(texts)

====
